---- MODULE Spec2Model ----
(***************************************************************************)
(* 2Dcutter: wrap-rule evaluator (wrap_rules.py) and the shelf/row board   *)
(* packer (packing.py, models.py) as state machines.                       *)
(*                                                                         *)
(* Lengths are millimetres.  The kerf, a float in the program, is modelled *)
(* by the integer values it takes in the model's inputs.  Python's None is *)
(* the string "None".  The characters U+2265 and U+00D7 of the program's   *)
(* messages are written ">=" and "x" because module text is ASCII.         *)
(***************************************************************************)
EXTENDS Integers, Sequences, FiniteSets, TLC

VARIABLES
    call,                \* SpecWrap: the function called and its arguments
    ret,                 \* SpecWrap: its outcome (pending / returned / raised)
    material,            \* build_boards_for_material: argument material
    kerf,                \* build_boards_for_material: argument kerf
    enforce_wrap_rules,  \* build_boards_for_material: argument enforce_wrap_rules
    item_specs,          \* build_boards_for_material: argument item_specs
    units,               \* local units (expanded, sorted)
    boards,              \* local boards: the BoardLayouts created so far
    cands,               \* local cands of the unit being placed
    ui,                  \* position of the for-loop over units (1-based)
    bi,                  \* position of the for-loop over boards (1-based)
    ci,                  \* position of the for-loop over cands (1-based)
    pc,                  \* control point inside build_boards_for_material
    error                \* message of the ValueError raised, "" when none

vars == <<call, ret, material, kerf, enforce_wrap_rules, item_specs, units,
          boards, cands, ui, bi, ci, pc, error>>

packvars == <<material, kerf, enforce_wrap_rules, item_specs, units,
              boards, cands, ui, bi, ci, pc, error>>

(***************************************************************************)
(* Bounds of the model.                                                    *)
(***************************************************************************)
MaxValidate == 3    \* longest item list given to validate_wrapping
MaxUnits == 3       \* most units (sum of the quantities) in one packing run
MaxAssignItems == 2 \* longest item list given to assign_any_items_to_materials
MaxMaterials == 3   \* most materials in the mapping given to it
MaxBoards == 4      \* most boards of the first material given to compute_summary
MaxOtherBoards == 1 \* most boards of the second material given to it
MaxMainItems == 2   \* longest item list read by main

\* Item names, by position in the input list (parse_items keeps them unique).
Names == <<"a", "b", "c", "d", "e">>

None == "None"

(***************************************************************************)
(* Generic sequence helpers.                                               *)
(***************************************************************************)
RECURSIVE SeqsUpTo(_, _)
SeqsUpTo(S, n) ==
    IF n = 0 THEN {<<>>}
    ELSE LET shorter == SeqsUpTo(S, n - 1)
         IN  shorter \cup {Append(s, e) : s \in {t \in shorter : Len(t) = n - 1}, e \in S}

RECURSIVE SumSeq(_)
SumSeq(s) == IF s = <<>> THEN 0 ELSE Head(s) + SumSeq(Tail(s))

Max2(a, b) == IF a >= b THEN a ELSE b

(***************************************************************************)
(* models.py: ItemSpec, MaterialSpec.                                      *)
(***************************************************************************)
ItemSpec(name, length_mm, width_mm, quantity, rotation_allowed, wrap_l, wrap_r, wrap_t, wrap_b, material_key) ==
    [name |-> name, length_mm |-> length_mm, width_mm |-> width_mm,
     quantity |-> quantity, rotation_allowed |-> rotation_allowed,
     wrap_l |-> wrap_l, wrap_r |-> wrap_r, wrap_t |-> wrap_t, wrap_b |-> wrap_b,
     material_key |-> material_key]

MaterialSpec(name, length_mm, width_mm, cost) ==
    [name |-> name, length_mm |-> length_mm, width_mm |-> width_mm, cost |-> cost]

(***************************************************************************)
(* wrap_rules.py                                                           *)
(***************************************************************************)
_side_count(a, b) == (IF a > 0 THEN 1 ELSE 0) + (IF b > 0 THEN 1 ELSE 0)

PerpMin == 150          \* perpendicular wrap: length and width at least this
ParLengthMin == 300     \* parallel-only wrap: length at least this
ParWidthMin == 65       \* parallel-only wrap: width at least this

PerpReason(length_mm, width_mm) ==
    "needs >=150x150 mm for perpendicular wrap, " \o
    "has " \o ToString(length_mm) \o "x" \o ToString(width_mm) \o " mm"

ParReason(length_mm, width_mm) ==
    "needs >=300x65 mm for parallel wrap, " \o
    "has " \o ToString(length_mm) \o "x" \o ToString(width_mm) \o " mm"

\* Mutant: the parallel rule is tested before the perpendicular one.
orientation_allowed_parallel_first(length_mm, width_mm, wrap_l, wrap_r, wrap_t, wrap_b) ==
    LET parallel_wrapped == _side_count(wrap_l, wrap_r) > 0
        perpendicular_wrapped == _side_count(wrap_t, wrap_b) > 0
    IN  IF ~parallel_wrapped /\ ~perpendicular_wrapped THEN <<TRUE, "">>
        ELSE IF parallel_wrapped
        THEN IF length_mm >= ParLengthMin /\ width_mm >= ParWidthMin
             THEN <<TRUE, "">>
             ELSE <<FALSE, ParReason(length_mm, width_mm)>>
        ELSE IF length_mm >= PerpMin /\ width_mm >= PerpMin
             THEN <<TRUE, "">>
             ELSE <<FALSE, PerpReason(length_mm, width_mm)>>

\* Mutant: the parallel rule accepts when either minimum is met.
orientation_allowed_parallel_or(length_mm, width_mm, wrap_l, wrap_r, wrap_t, wrap_b) ==
    LET parallel_wrapped == _side_count(wrap_l, wrap_r) > 0
        perpendicular_wrapped == _side_count(wrap_t, wrap_b) > 0
    IN  IF ~parallel_wrapped /\ ~perpendicular_wrapped THEN <<TRUE, "">>
        ELSE IF perpendicular_wrapped
        THEN IF length_mm >= PerpMin /\ width_mm >= PerpMin
             THEN <<TRUE, "">>
             ELSE <<FALSE, PerpReason(length_mm, width_mm)>>
        ELSE IF length_mm >= ParLengthMin \/ width_mm >= ParWidthMin
             THEN <<TRUE, "">>
             ELSE <<FALSE, ParReason(length_mm, width_mm)>>

\* Returns the pair <<allowed, message>>.
orientation_allowed_for_wrap(length_mm, width_mm, wrap_l, wrap_r, wrap_t, wrap_b) ==
    LET parallel_wrapped == _side_count(wrap_l, wrap_r) > 0
        perpendicular_wrapped == _side_count(wrap_t, wrap_b) > 0
    IN  IF ~parallel_wrapped /\ ~perpendicular_wrapped THEN <<TRUE, "">>
        ELSE IF perpendicular_wrapped
        THEN IF length_mm >= PerpMin /\ width_mm >= PerpMin
             THEN <<TRUE, "">>
             ELSE <<FALSE, PerpReason(length_mm, width_mm)>>
        ELSE IF parallel_wrapped /\ ~perpendicular_wrapped
        THEN IF length_mm >= ParLengthMin /\ width_mm >= ParWidthMin
             THEN <<TRUE, "">>
             ELSE <<FALSE, ParReason(length_mm, width_mm)>>
        ELSE <<TRUE, "">>

\* The candidates and failure reason built from the two orientation verdicts
\* (A_res, B_res are <<ok, reason>> pairs; B_res is read only if rotation is allowed).
\* Mutant: orientation A lies along the width (length horizontal).
CandidatesFrom_length_across(item, A_res, B_res) ==
    LET L == item.length_mm
        W == item.width_mm
        candA == IF A_res[1] THEN << <<L, W, FALSE>> >> ELSE <<>>
        candB == IF item.rotation_allowed /\ B_res[1]
                 THEN << <<W, L, TRUE>> >> ELSE <<>>
    IN  IF candA \o candB = <<>> THEN <<candA \o candB, "orientation invalid under wrap rules">>
        ELSE <<candA \o candB, "">>

CandidatesFrom(item, A_res, B_res) ==
    LET L == item.length_mm
        W == item.width_mm
        candA == IF A_res[1] THEN << <<W, L, FALSE>> >> ELSE <<>>
        reasonA == IF A_res[1] THEN "" ELSE A_res[2]
        candB == IF item.rotation_allowed /\ B_res[1]
                 THEN << <<L, W, TRUE>> >> ELSE <<>>
        reasonB == IF item.rotation_allowed /\ ~B_res[1] /\ reasonA = ""
                   THEN B_res[2] ELSE reasonA
        candidates == candA \o candB
    IN  IF candidates = <<>>
        THEN <<candidates,
               IF reasonB # "" THEN reasonB ELSE "orientation invalid under wrap rules">>
        ELSE <<candidates, "">>

\* Mutant: the enforce_wrap_rules flag is ignored, the rules always apply.
get_orientation_candidates_always_enforced(item, enforce) ==
    CandidatesFrom(item,
        orientation_allowed_for_wrap(item.length_mm, item.width_mm,
            item.wrap_l, item.wrap_r, item.wrap_t, item.wrap_b),
        orientation_allowed_for_wrap(item.width_mm, item.length_mm,
            item.wrap_l, item.wrap_r, item.wrap_t, item.wrap_b))

\* Mutant: the wrap rules are never applied.
get_orientation_candidates_never_enforced(item, enforce) ==
    CandidatesFrom(item, <<TRUE, "">>, <<TRUE, "">>)

\* Returns the pair <<candidates, failure_reason>>; a candidate is
\* <<width_mm, height_mm, rotated>>.
get_orientation_candidates(item, enforce) ==
    CandidatesFrom(item,
        IF enforce
        THEN orientation_allowed_for_wrap(item.length_mm, item.width_mm,
                 item.wrap_l, item.wrap_r, item.wrap_t, item.wrap_b)
        ELSE <<TRUE, "">>,
        IF enforce
        THEN orientation_allowed_for_wrap(item.width_mm, item.length_mm,
                 item.wrap_l, item.wrap_r, item.wrap_t, item.wrap_b)
        ELSE <<TRUE, "">>)

\* The list `problems` after the loop of validate_wrapping over items.
RECURSIVE ValidateProblems(_)
ValidateProblems(items) ==
    IF items = <<>> THEN <<>>
    ELSE LET it == Head(items)
             r == get_orientation_candidates(it, TRUE)
         IN  (IF r[1] = <<>> THEN <<it.name \o ": " \o r[2]>> ELSE <<>>)
             \o ValidateProblems(Tail(items))

\* "\n".join(f"- {p}" for p in problems)
RECURSIVE JoinProblems(_)
JoinProblems(problems) ==
    IF problems = <<>> THEN ""
    ELSE IF Len(problems) = 1 THEN "- " \o problems[1]
    ELSE "- " \o Head(problems) \o "\n" \o JoinProblems(Tail(problems))

ValidateHeader == "Wrapping constraints violated for the following items:\n"

Returned(v) == [status |-> "returned", value |-> v]
Raised(msg) == [status |-> "raised", msg |-> msg]

\* Mutant: the loop raises at the first offending item.
validate_wrapping_first_only(items) ==
    LET problems == ValidateProblems(items)
    IN  IF problems # <<>>
        THEN Raised(ValidateHeader \o JoinProblems(<<problems[1]>>))
        ELSE Returned(None)

validate_wrapping(items) ==
    LET problems == ValidateProblems(items)
    IN  IF problems # <<>>
        THEN Raised(ValidateHeader \o JoinProblems(problems))
        ELSE Returned(None)

(***************************************************************************)
(* SpecWrap: the wrap-rule functions applied to inputs drawn in InitWrap.  *)
(***************************************************************************)
WrapDims == {60, 64, 65, 140, 149, 150, 200, 299, 300}
WrapFlagValues == {0, 18}       \* 0 = no band on the edge, else the band width
SignedFlagValues == {-1, 0, 18} \* parse_items takes any float, also a negative one

OrientationCalls ==
    {[fn |-> "orientation_allowed_for_wrap", length_mm |-> l, width_mm |-> w,
      wrap_l |-> fl, wrap_r |-> fr, wrap_t |-> ft, wrap_b |-> fb] :
        l \in WrapDims, w \in WrapDims,
        fl \in SignedFlagValues, fr \in SignedFlagValues,
        ft \in SignedFlagValues, fb \in SignedFlagValues}

CandidateCalls ==
    {[fn |-> "get_orientation_candidates",
      item |-> ItemSpec("a", l, w, 1, rot, fl, fr, ft, fb, None),
      enforce_wrap_rules |-> e] :
        l \in WrapDims, w \in WrapDims, rot \in BOOLEAN,
        fl \in WrapFlagValues, fr \in WrapFlagValues,
        ft \in WrapFlagValues, fb \in WrapFlagValues, e \in BOOLEAN}

\* Items for validate_wrapping: <<length, width, rotation, wrap_l, wrap_t>>.
ValidateShapes ==
    { <<300, 60, FALSE, 18, 0>>,    \* parallel, too narrow: no candidate
      <<60, 300, TRUE, 18, 0>>,     \* parallel, fails in both orientations
      <<140, 200, FALSE, 0, 18>>,   \* perpendicular, too short: no candidate
      <<100, 300, TRUE, 18, 0>>,    \* parallel, legal only when rotated
      <<300, 100, FALSE, 18, 0>>,   \* parallel, legal as given
      <<200, 200, FALSE, 0, 0>> }   \* no wrap

NameItems(shapes) ==
    [i \in 1..Len(shapes) |->
        ItemSpec(Names[i], shapes[i][1], shapes[i][2], 1, shapes[i][3],
                 shapes[i][4], 0, shapes[i][5], 0, None)]

ValidateCalls ==
    {[fn |-> "validate_wrapping", items |-> NameItems(shapes)] :
        shapes \in SeqsUpTo(ValidateShapes, MaxValidate)}

Pending == [status |-> "pending"]
NoCall == [fn |-> "none"]

\* Values of the packer's variables while only the wrap functions run.
PackIdle ==
    /\ material = None /\ kerf = 0 /\ enforce_wrap_rules = TRUE
    /\ item_specs = <<>> /\ units = <<>> /\ boards = <<>> /\ cands = <<>>
    /\ ui = 0 /\ bi = 0 /\ ci = 0 /\ pc = "idle" /\ error = ""

InitWrap ==
    /\ call \in OrientationCalls \cup CandidateCalls \cup ValidateCalls
    /\ ret = Pending
    /\ PackIdle

CallOrientationAllowed ==
    /\ call.fn = "orientation_allowed_for_wrap" /\ ret = Pending
    /\ ret' = Returned(orientation_allowed_for_wrap(call.length_mm, call.width_mm,
                  call.wrap_l, call.wrap_r, call.wrap_t, call.wrap_b))
    /\ UNCHANGED <<call, packvars>>

CallGetCandidates ==
    /\ call.fn = "get_orientation_candidates" /\ ret = Pending
    /\ ret' = Returned(get_orientation_candidates(call.item, call.enforce_wrap_rules))
    /\ UNCHANGED <<call, packvars>>

CallValidateWrapping ==
    /\ call.fn = "validate_wrapping" /\ ret = Pending
    /\ ret' = validate_wrapping(call.items)
    /\ UNCHANGED <<call, packvars>>

NextWrap == CallOrientationAllowed \/ CallGetCandidates \/ CallValidateWrapping

SpecWrap == InitWrap /\ [][NextWrap]_vars

(***************************************************************************)
(* Claims about the wrap-rule evaluator (checked under SpecWrap).          *)
(***************************************************************************)
OrientationDone == call.fn = "orientation_allowed_for_wrap" /\ ret.status = "returned"
CandidatesDone == call.fn = "get_orientation_candidates" /\ ret.status = "returned"
ValidateDone == call.fn = "validate_wrapping" /\ ret # Pending

\* C7: orientation_allowed_for_wrap follows the three-case policy: with no
\* flag > 0 it allows; with t > 0 or b > 0 it allows iff length >= 150 and
\* width >= 150 whatever l and r are; with only l or r > 0 it allows iff
\* length >= 300 and width >= 65; the message is empty iff it allows.
C7_ThreeCasePolicy ==
    OrientationDone =>
        LET allowed == ret.value[1]
            perp == call.wrap_t > 0 \/ call.wrap_b > 0
            par == call.wrap_l > 0 \/ call.wrap_r > 0
        IN  /\ (~perp /\ ~par) => allowed
            /\ perp => (allowed <=> (call.length_mm >= 150 /\ call.width_mm >= 150))
            /\ (par /\ ~perp) => (allowed <=> (call.length_mm >= 300 /\ call.width_mm >= 65))
            /\ (ret.value[2] = "") <=> allowed

\* A 300x65 piece banded on the left and on top: the perpendicular rule
\* decides and rejects it although the parallel rule would accept it.
C7_Witness ==
    /\ OrientationDone
    /\ call.wrap_l > 0 /\ call.wrap_t > 0
    /\ call.length_mm = 300 /\ call.width_mm = 65
    /\ ret.value[1] = FALSE /\ ret.value[2] # ""

IsLeftOnly300x60(item) ==
    /\ item.length_mm = 300 /\ item.width_mm = 60
    /\ item.wrap_l > 0 /\ item.wrap_r = 0 /\ item.wrap_t = 0 /\ item.wrap_b = 0

\* C8 as stated: a 300x60 item with only the left flag, under enforcement,
\* has zero candidates without rotation and one candidate with rotation.
C8_AsStated ==
    (CandidatesDone /\ call.enforce_wrap_rules /\ IsLeftOnly300x60(call.item)) =>
        Len(ret.value[1]) = (IF call.item.rotation_allowed THEN 1 ELSE 0)

\* C8 amended: a 300x60 item with only the left flag, under enforcement, has
\* zero candidates whether or not rotation is allowed (the rotated 60x300
\* orientation fails the 300x65 rule too), and the reason is orientation A's.
C8_NoCandidateEitherWay ==
    (CandidatesDone /\ call.enforce_wrap_rules /\ IsLeftOnly300x60(call.item)) =>
        /\ ret.value[1] = <<>>
        /\ ret.value[2] = ParReason(300, 60)

C8_Witness ==
    /\ CandidatesDone /\ call.enforce_wrap_rules /\ IsLeftOnly300x60(call.item)
    /\ call.item.rotation_allowed
    /\ ret.value[1] = <<>>

\* C9: with enforce_wrap_rules = False the candidates are [(width, length,
\* False)] followed by (length, width, True) iff rotation is allowed, the
\* failure reason is empty and the list is never empty.
C9_NoEnforcement ==
    (CandidatesDone /\ ~call.enforce_wrap_rules) =>
        LET it == call.item
        IN  /\ ret.value[1] =
                   IF it.rotation_allowed
                   THEN << <<it.width_mm, it.length_mm, FALSE>>,
                           <<it.length_mm, it.width_mm, TRUE>> >>
                   ELSE << <<it.width_mm, it.length_mm, FALSE>> >>
            /\ ret.value[2] = ""
            /\ Len(ret.value[1]) >= 1

\* Enforcement off, a banded item that the rules reject in both orientations
\* still gets both candidates.
C9_Witness ==
    /\ CandidatesDone /\ ~call.enforce_wrap_rules
    /\ call.item.rotation_allowed
    /\ call.item.wrap_t > 0 /\ call.item.length_mm = 60 /\ call.item.width_mm = 64
    /\ Len(ret.value[1]) = 2

HasNoCandidate(it) ==
    \A o \in { <<it.length_mm, it.width_mm>> } \cup
             (IF it.rotation_allowed THEN { <<it.width_mm, it.length_mm>> } ELSE {}) :
        LET perp == it.wrap_t > 0 \/ it.wrap_b > 0
            par == it.wrap_l > 0 \/ it.wrap_r > 0
        IN  \/ perp /\ ~(o[1] >= 150 /\ o[2] >= 150)
            \/ ~perp /\ par /\ ~(o[1] >= 300 /\ o[2] >= 65)

\* The text of the entry of an offending item: its name, then the reason of
\* the first orientation tried.
EntryOf(it) ==
    "- " \o it.name \o ": needs " \o
    (IF it.wrap_t > 0 \/ it.wrap_b > 0
     THEN ">=150x150 mm for perpendicular wrap, has "
     ELSE ">=300x65 mm for parallel wrap, has ") \o
    ToString(it.length_mm) \o "x" \o ToString(it.width_mm) \o " mm"

RECURSIVE JoinLines(_)
JoinLines(lines) ==
    IF lines = <<>> THEN ""
    ELSE Head(lines) \o (IF Len(lines) > 1 THEN "\n" ELSE "") \o JoinLines(Tail(lines))

\* C10: validate_wrapping raises iff some item has no candidate under full
\* enforcement; the one message raised lists, in input order, an entry (name
\* and reason) for every such item and for no other item.
C10_AggregatedReport ==
    ValidateDone =>
        LET offenders == SelectSeq(call.items, HasNoCandidate)
        IN  /\ (ret.status = "raised") <=> (\E i \in 1..Len(call.items) : HasNoCandidate(call.items[i]))
            /\ ret.status = "raised" =>
                 ret.msg = "Wrapping constraints violated for the following items:\n"
                           \o JoinLines([i \in 1..Len(offenders) |-> EntryOf(offenders[i])])

\* Three items, the first and the last offending, the middle one legal.
C10_Witness ==
    /\ ValidateDone /\ ret.status = "raised"
    /\ Len(call.items) = 3
    /\ HasNoCandidate(call.items[1])
    /\ ~HasNoCandidate(call.items[2])
    /\ HasNoCandidate(call.items[3])

(***************************************************************************)
(* models.py: PlacedItem, CutRect, RowLayout, BoardLayout.                 *)
(***************************************************************************)
PlacedItem(spec, material_name, board_index, x_mm, y_mm, width_mm, height_mm, rotated) ==
    [spec |-> spec, material_name |-> material_name, board_index |-> board_index,
     x_mm |-> x_mm, y_mm |-> y_mm, width_mm |-> width_mm, height_mm |-> height_mm,
     rotated |-> rotated]

CutRect(x_mm, y_mm, width_mm, height_mm, cut_length_mm, orientation) ==
    [x_mm |-> x_mm, y_mm |-> y_mm, width_mm |-> width_mm, height_mm |-> height_mm,
     cut_length_mm |-> cut_length_mm, orientation |-> orientation]

RowLayout(y_mm, h_mm, board_width_mm) ==
    [y_mm |-> y_mm, h_mm |-> h_mm, board_width_mm |-> board_width_mm,
     items |-> <<>>, x_cursor |-> 0]

BoardLayout(mat, index, k) ==
    [material |-> mat, index |-> index, kerf |-> k,
     rows |-> <<>>, placed_items |-> <<>>, cut_rects |-> <<>>]

used_length_mm(board) ==
    IF board.rows = <<>> THEN 0
    ELSE LET last == board.rows[Len(board.rows)] IN last.y_mm + last.h_mm

(***************************************************************************)
(* packing.py: try_place_on_row.  The row is named by its position ri in   *)
(* board.rows; the result is <<placed, board after the call>>.             *)
(***************************************************************************)
\* Mutant: the kerf gap is left out of the width a non-first item needs.
NeededWidth_no_kerf(row, w, k) == w

\* needed = w + (kerf if row.items else 0)
NeededWidth(row, w, k) == w + (IF row.items # <<>> THEN k ELSE 0)

\* Mutant: the row height is not compared.
RowRejects_width_only(row, w, h, k) ==
    row.x_cursor + NeededWidth(row, w, k) > row.board_width_mm

\* Mutant: an item that would end exactly at the board edge is refused.
RowRejects_edge_refused(row, w, h, k) ==
    \/ h # row.h_mm
    \/ row.x_cursor + NeededWidth(row, w, k) >= row.board_width_mm

\* The two early returns: height mismatch, or not enough width left.
RowRejects(row, w, h, k) ==
    \/ h # row.h_mm
    \/ row.x_cursor + NeededWidth(row, w, k) > row.board_width_mm

\* Mutant: the vertical kerf rectangle is recorded after the cursor moved.
VerticalKerf_after_cursor(row, k) ==
    CutRect(row.x_cursor + k, row.y_mm, k, row.h_mm, row.h_mm, "V")

\* The kerf rectangle put before a non-first item.
VerticalKerf(row, k) ==
    CutRect(row.x_cursor, row.y_mm, k, row.h_mm, row.h_mm, "V")

try_place_on_row(board, ri, item, w, h, rotated) ==
    LET row == board.rows[ri]
        k == board.kerf
    IN  IF RowRejects(row, w, h, k) THEN <<FALSE, board>>
        ELSE
        LET first == (row.items = <<>>)
            cuts == IF first THEN board.cut_rects
                    ELSE Append(board.cut_rects, VerticalKerf(row, k))
            x0 == IF first THEN row.x_cursor ELSE row.x_cursor + k
            p == PlacedItem(item, board.material.name, board.index,
                            x0, row.y_mm, w, h, rotated)
            row2 == [row EXCEPT !.items = Append(@, p), !.x_cursor = x0 + w]
        IN  <<TRUE, [board EXCEPT !.rows[ri] = row2,
                                  !.placed_items = Append(@, p),
                                  !.cut_rects = cuts]>>

(***************************************************************************)
(* packing.py: start_new_row.  The new row is the last of the result.      *)
(***************************************************************************)
\* Mutant: the next row starts at the previous row's bottom edge, kerf forgotten.
NewRowY_no_kerf(board) ==
    IF board.rows = <<>> THEN 0
    ELSE LET prev == board.rows[Len(board.rows)] IN prev.y_mm + prev.h_mm

NewRowY(board) ==
    IF board.rows = <<>> THEN 0
    ELSE LET prev == board.rows[Len(board.rows)] IN prev.y_mm + prev.h_mm + board.kerf

\* Mutant: the horizontal kerf is cut out of the bottom of the previous row.
HorizontalKerf_inside_row(board) ==
    LET prev == board.rows[Len(board.rows)]
    IN  CutRect(0, prev.y_mm + prev.h_mm - board.kerf, board.material.width_mm, board.kerf,
                board.material.width_mm, "H")

HorizontalKerf(board) ==
    LET prev == board.rows[Len(board.rows)]
    IN  CutRect(0, prev.y_mm + prev.h_mm, board.material.width_mm, board.kerf,
                board.material.width_mm, "H")

start_new_row(board, h) ==
    LET cuts == IF board.rows = <<>> THEN board.cut_rects
                ELSE Append(board.cut_rects, HorizontalKerf(board))
        r == RowLayout(NewRowY(board), h, board.material.width_mm)
    IN  [board EXCEPT !.cut_rects = cuts, !.rows = Append(@, r)]

(***************************************************************************)
(* packing.py: build_boards_for_material, step by step.                    *)
(***************************************************************************)
\* Mutant: every spec yields one unit, its quantity ignored.
RECURSIVE ExpandUnits_one_each(_)
ExpandUnits_one_each(specs) ==
    IF specs = <<>> THEN <<>>
    ELSE <<Head(specs)>> \o ExpandUnits_one_each(Tail(specs))

\* for it in item_specs: for _ in range(it.quantity): units.append(it)
RECURSIVE ExpandUnits(_)
ExpandUnits(specs) ==
    IF specs = <<>> THEN <<>>
    ELSE [i \in 1..Head(specs).quantity |-> Head(specs)] \o ExpandUnits(Tail(specs))

SortKey(it) == Max2(it.length_mm, it.width_mm)

\* Mutant: it is inserted before the elements of equal key.
RECURSIVE InsertDescending_before_equals(_, _)
InsertDescending_before_equals(sorted, it) ==
    IF sorted = <<>> THEN <<it>>
    ELSE IF SortKey(Head(sorted)) > SortKey(it)
         THEN <<Head(sorted)>> \o InsertDescending_before_equals(Tail(sorted), it)
         ELSE <<it>> \o sorted

\* Inserts it after every element whose key is >= its own (stable, descending).
RECURSIVE InsertDescending(_, _)
InsertDescending(sorted, it) ==
    IF sorted = <<>> THEN <<it>>
    ELSE IF SortKey(Head(sorted)) >= SortKey(it)
         THEN <<Head(sorted)>> \o InsertDescending(Tail(sorted), it)
         ELSE <<it>> \o sorted

\* units.sort(key=max(length, width), reverse=True): stable.
RECURSIVE SortUnits(_)
SortUnits(us) ==
    IF us = <<>> THEN <<>>
    ELSE InsertDescending(SortUnits(SubSeq(us, 1, Len(us) - 1)), us[Len(us)])

\* Mutant: only the row at position ri is tried, the rows after it are skipped.
TryRowsFrom_first_only(board, ri, unit, cand) ==
    IF ri > Len(board.rows) THEN <<FALSE, board>>
    ELSE try_place_on_row(board, ri, unit, cand[1], cand[2], cand[3])

\* for row in b.rows: if try_place_on_row(...): break  -- from row ri on.
RECURSIVE TryRowsFrom(_, _, _, _)
TryRowsFrom(board, ri, unit, cand) ==
    IF ri > Len(board.rows) THEN <<FALSE, board>>
    ELSE LET r == try_place_on_row(board, ri, unit, cand[1], cand[2], cand[3])
         IN  IF r[1] THEN r ELSE TryRowsFrom(board, ri + 1, unit, cand)

\* Mutant: the height check of a new row forgets the kerf below the last row.
NewRowFeasible_no_kerf(board, h, mat) ==
    used_length_mm(board) + h <= mat.length_mm

\* b.used_length_mm() + (b.kerf if b.rows else 0) + h <= material.length_mm
NewRowFeasible(board, h, mat) ==
    used_length_mm(board) + (IF board.rows # <<>> THEN board.kerf ELSE 0) + h
        <= mat.length_mm

\* Mutant: a new board takes the first candidate without testing that it fits.
FitsEmptyBoard_unchecked(cand, mat) == TRUE

\* w <= material.width_mm and h <= material.length_mm
FitsEmptyBoard(cand, mat) ==
    cand[1] <= mat.width_mm /\ cand[2] <= mat.length_mm

\* The first candidate, in order, that fits the empty board; 0 when none does.
RECURSIVE FirstFitting(_, _, _)
FirstFitting(cs, i, mat) ==
    IF i > Len(cs) THEN 0
    ELSE IF FitsEmptyBoard(cs[i], mat) THEN i
    ELSE FirstFitting(cs, i + 1, mat)

(***************************************************************************)
(* Spec: one call of build_boards_for_material on inputs drawn in Init.    *)
(***************************************************************************)
PackMaterials == { MaterialSpec("M", 600, 400, 100), MaterialSpec("N", 450, 300, 80) }
Kerfs == {0, 4}

\* The items offered to the packer: <<length, width, rotation_allowed, wrap_l>>.
PackCatalog ==
    { <<300, 200, FALSE, 0>>,    \* 200 wide, 300 high: two fill the width when kerf = 0
      <<300, 200, TRUE, 0>>,     \* the same, may also lie 300 wide, 200 high
      <<200, 300, TRUE, 0>>,     \* 300 wide, 200 high first, 200 wide, 300 high rotated
      <<200, 300, TRUE, 18>>,    \* banded: only the rotated orientation is legal
      <<200, 300, FALSE, 18>>,   \* banded and fixed: no legal orientation
      <<100, 300, FALSE, 0>>,    \* 300 wide, 100 high
      <<100, 450, TRUE, 0>>,     \* wider than the board unless rotated
      <<100, 450, FALSE, 0>> }   \* wider than the board, may not rotate

\* The lists of <<catalog entry, quantity>> whose quantities sum to n at most.
RECURSIVE SpecLists(_)
SpecLists(n) ==
    {<<>>} \cup
    UNION { { << <<e, q>> >> \o rest : e \in PackCatalog, rest \in SpecLists(n - q) } :
            q \in 1..n }

NameSpecs(list, key) ==
    [i \in 1..Len(list) |->
        ItemSpec(Names[i], list[i][1][1], list[i][1][2], list[i][2], list[i][1][3],
                 list[i][1][4], 0, 0, 0, key)]

\* Banded items, <<length, width, rotation_allowed, wrap_l, wrap_t>>.
BandedCatalog ==
    { <<140, 200, TRUE, 0, 18>>,    \* top band, 140 < 150: no legal orientation
      <<150, 300, TRUE, 0, 18>>,    \* top band: both orientations legal
      <<300, 100, TRUE, 18, 18>>,   \* left and top band: the top band rules, 100 < 150
      <<200, 300, TRUE, 18, 0>> }   \* left band: only the rotated orientation is legal

RECURSIVE BandedLists(_)
BandedLists(n) ==
    {<<>>} \cup
    UNION { { << <<e, q>> >> \o rest : e \in BandedCatalog, rest \in BandedLists(n - q) } :
            q \in 1..n }

NameBandedSpecs(list, key) ==
    [i \in 1..Len(list) |->
        ItemSpec(Names[i], list[i][1][1], list[i][1][2], list[i][2], list[i][1][3],
                 list[i][1][4], 0, list[i][1][5], 0, key)]

\* The end-to-end scenario: a 1000 by 2000 board costing 100, read either way,
\* and two units 400 long and 300 wide that may not rotate and carry no band,
\* given as one spec of quantity 2 or as two specs.
ScenarioMaterials == { MaterialSpec("S", 1000, 2000, 100), MaterialSpec("S", 2000, 1000, 100) }

ScenarioSpecs(key) ==
    { << ItemSpec("a", 400, 300, 2, FALSE, 0, 0, 0, 0, key) >>,
      << ItemSpec("a", 400, 300, 1, FALSE, 0, 0, 0, 0, key),
         ItemSpec("b", 400, 300, 1, FALSE, 0, 0, 0, 0, key) >> }

Init ==
    /\ call = NoCall /\ ret = Pending
    /\ material \in PackMaterials \cup ScenarioMaterials
    /\ kerf \in Kerfs
    /\ enforce_wrap_rules \in BOOLEAN
    /\ \/ /\ material \in PackMaterials
          /\ item_specs \in { NameSpecs(list, material.name) : list \in SpecLists(MaxUnits) }
       \/ /\ material \in ScenarioMaterials
          /\ item_specs \in ScenarioSpecs(material.name)
       \/ /\ material = MaterialSpec("M", 600, 400, 100)
          /\ item_specs \in { NameBandedSpecs(list, material.name) : list \in BandedLists(MaxUnits) }
    /\ units = <<>> /\ boards = <<>> /\ cands = <<>>
    /\ ui = 0 /\ bi = 0 /\ ci = 0
    /\ pc = "start" /\ error = ""

inputs == <<call, ret, material, kerf, enforce_wrap_rules, item_specs>>

\* Lines 161-170: expand the quantities, sort large-first, boards = [].
Expand ==
    /\ pc = "start"
    /\ units' = SortUnits(ExpandUnits(item_specs))
    /\ boards' = <<>>
    /\ ui' = 1 /\ pc' = "unit"
    /\ UNCHANGED <<inputs, cands, bi, ci, error>>

\* Lines 172-181: the next unit; its candidates; raise when it has none.
BeginUnit ==
    /\ pc = "unit" /\ ui <= Len(units)
    /\ LET cs == get_orientation_candidates(units[ui], enforce_wrap_rules)[1]
       IN  /\ cands' = cs
           /\ IF cs = <<>>
              THEN /\ pc' = "failed"
                   /\ error' = "Item '" \o units[ui].name \o "' has no valid orientation."
                   /\ UNCHANGED <<bi, ci>>
              ELSE /\ error' = error
                   /\ IF boards = <<>>
                      THEN pc' = "newboard" /\ UNCHANGED <<bi, ci>>
                      ELSE pc' = "rows" /\ bi' = 1 /\ ci' = 1
    /\ UNCHANGED <<inputs, units, boards, ui>>

\* Lines 184-189: the existing rows of board bi, top to bottom, for candidate ci.
TryExistingRows ==
    /\ pc = "rows"
    /\ LET r == TryRowsFrom(boards[bi], 1, units[ui], cands[ci])
       IN  /\ boards' = [boards EXCEPT ![bi] = r[2]]
           /\ IF r[1]
              THEN pc' = "unit" /\ ui' = ui + 1
              ELSE pc' = "newrow" /\ ui' = ui
    /\ UNCHANGED <<inputs, units, cands, bi, ci, error>>

\* Lines 191-199: a new row on board bi for candidate ci when its height is
\* feasible; then the next candidate, the next board, or a new board.
TryNewRow ==
    /\ pc = "newrow"
    /\ LET b == boards[bi]
           c == cands[ci]
           feasible == NewRowFeasible(b, c[2], material)
           opened == start_new_row(b, c[2])
           r == IF feasible
                THEN try_place_on_row(opened, Len(opened.rows), units[ui], c[1], c[2], c[3])
                ELSE <<FALSE, b>>
       IN  /\ boards' = [boards EXCEPT ![bi] = r[2]]
           /\ IF r[1]
              THEN pc' = "unit" /\ ui' = ui + 1 /\ UNCHANGED <<bi, ci>>
              ELSE /\ ui' = ui
                   /\ IF ci < Len(cands)
                      THEN pc' = "rows" /\ ci' = ci + 1 /\ bi' = bi
                      ELSE IF bi < Len(boards)
                      THEN pc' = "rows" /\ ci' = 1 /\ bi' = bi + 1
                      ELSE pc' = "newboard" /\ UNCHANGED <<bi, ci>>
    /\ UNCHANGED <<inputs, units, cands, error>>

\* Lines 204-217: a new board hosting the unit in its first row, or the raise.
NewBoard ==
    /\ pc = "newboard"
    /\ LET nb == BoardLayout(material, Len(boards), kerf)
           i == FirstFitting(cands, 1, material)
       IN  IF i = 0
           THEN /\ pc' = "failed"
                /\ error' = "Item '" \o units[ui].name \o "' cannot fit even on empty board."
                /\ UNCHANGED <<boards, ui>>
           ELSE LET c == cands[i]
                    first_row == start_new_row(nb, c[2])
                    r == try_place_on_row(first_row, 1, units[ui], c[1], c[2], c[3])
                IN  /\ boards' = Append(boards, r[2])
                    /\ pc' = "unit" /\ ui' = ui + 1
                    /\ error' = error
    /\ UNCHANGED <<inputs, units, cands, bi, ci>>

\* Line 219: return boards.
Return ==
    /\ pc = "unit" /\ ui > Len(units)
    /\ pc' = "done"
    /\ UNCHANGED <<inputs, units, boards, cands, ui, bi, ci, error>>

Next == Expand \/ BeginUnit \/ TryExistingRows \/ TryNewRow \/ NewBoard \/ Return

Spec == Init /\ [][Next]_vars

(***************************************************************************)
(* Claims about the packer (checked under Spec).                           *)
(***************************************************************************)
BoardIds == 1..Len(boards)
RowIds(b) == 1..Len(boards[b].rows)
Returned_boards == pc = "done"

\* The positions of the cut rectangles of board b that equal rect.
CutsEqual(b, rect) ==
    { k \in 1..Len(boards[b].cut_rects) : boards[b].cut_rects[k] = rect }

\* Every item held by board b: those of its list and those of its rows.
ItemsOf(b) ==
    { boards[b].placed_items[k] : k \in 1..Len(boards[b].placed_items) } \cup
    UNION { { boards[b].rows[r].items[k] : k \in 1..Len(boards[b].rows[r].items) } :
            r \in RowIds(b) }

\* C1: on every returned board every placed item lies inside the board:
\* 0 <= x, x + width <= material width, 0 <= y, y + height <= material length.
C1_ItemsInsideBoard ==
    Returned_boards =>
        \A b \in BoardIds : \A p \in ItemsOf(b) :
            /\ 0 <= p.x_mm /\ p.x_mm + p.width_mm <= material.width_mm
            /\ 0 <= p.y_mm /\ p.y_mm + p.height_mm <= material.length_mm

\* A returned board with an item that follows another and ends exactly on the
\* right edge, and one in a lower row that ends exactly on the bottom edge.
C1_Witness ==
    /\ Returned_boards
    /\ \E b \in BoardIds : \E p \in ItemsOf(b) :
           p.x_mm > 0 /\ p.x_mm + p.width_mm = material.width_mm
    /\ \E b \in BoardIds : \E p \in ItemsOf(b) :
           p.y_mm > 0 /\ p.y_mm + p.height_mm = material.length_mm

Accepts(b, r, c) == ~RowRejects(boards[b].rows[r], c[1], c[2], boards[b].kerf)

\* The packer is about to open a new row on board bi for candidate ci.
OpensNewRow ==
    pc = "newrow" /\ NewRowFeasible(boards[bi], cands[ci][2], material)

\* The new row about to be opened will take the unit (its candidate is no
\* wider than the board).
OpensNewRowForUnit ==
    OpensNewRow /\ cands[ci][1] <= boards[bi].material.width_mm

\* C2 as stated: a new row is opened for a unit on an open board only if no
\* existing row of any open board accepts any candidate of the unit.
C2_AsStated ==
    OpensNewRowForUnit =>
        \A b \in BoardIds : \A c \in 1..Len(cands) : \A r \in RowIds(b) :
            ~Accepts(b, r, cands[c])

\* C2 amended: a new row is opened on board bi for candidate ci only if no
\* existing row of that board accepts that candidate or an earlier one, and
\* no existing row of an earlier board accepts any candidate (the search goes
\* board by board and, within a board, candidate by candidate, each candidate
\* trying the existing rows and then a new row).
C2_NewRowAfterOwnRows ==
    OpensNewRow =>
        /\ \A r \in RowIds(bi) : \A c \in 1..ci : ~Accepts(bi, r, cands[c])
        /\ \A b \in 1..(bi - 1) : \A c \in 1..Len(cands) : \A r \in RowIds(b) :
               ~Accepts(b, r, cands[c])

\* A new row about to be opened on the second board for the first candidate
\* while an existing row of that board accepts the second candidate.
C2_Witness ==
    /\ OpensNewRow
    /\ bi = 2 /\ ci = 1 /\ Len(cands) = 2
    /\ \E r \in RowIds(2) : Accepts(2, r, cands[2])

PlacedCount(spec) ==
    SumSeq([b \in BoardIds |->
        Cardinality({ k \in 1..Len(boards[b].placed_items) :
                        boards[b].placed_items[k].spec = spec })])

RowPlacedCount(spec) ==
    SumSeq([b \in BoardIds |->
        SumSeq([r \in RowIds(b) |->
            Cardinality({ k \in 1..Len(boards[b].rows[r].items) :
                            boards[b].rows[r].items[k].spec = spec })])])

\* C3: a successful run returns exactly `quantity` placed items for every
\* spec (counted over the boards' lists and over the rows alike); a failed
\* run raised at the first unit of the failing spec, none of its units placed.
C3_QuantityOrNothing ==
    /\ Returned_boards =>
         \A i \in 1..Len(item_specs) :
            /\ PlacedCount(item_specs[i]) = item_specs[i].quantity
            /\ RowPlacedCount(item_specs[i]) = item_specs[i].quantity
    /\ pc = "failed" =>
         /\ \A j \in 1..(ui - 1) : units[j] # units[ui]
         /\ PlacedCount(units[ui]) = 0
         /\ RowPlacedCount(units[ui]) = 0

\* A returned run in which one spec of quantity 2 has its units on two boards.
C3_Witness ==
    /\ Returned_boards
    /\ \E i \in 1..Len(item_specs) :
          /\ item_specs[i].quantity = 2
          /\ \E b1, b2 \in BoardIds :
                /\ b1 # b2
                /\ \E p \in ItemsOf(b1) : p.spec = item_specs[i]
                /\ \E p \in ItemsOf(b2) : p.spec = item_specs[i]

\* C4: on every returned board, in every row, the first item has x = 0 and no
\* V cut rectangle before it; between adjacent items there is exactly one V
\* cut rectangle (width kerf, height the row's, at the left item's right edge
\* and the row's y), and the right item starts at that x + kerf.
C4_VerticalKerfs ==
    Returned_boards =>
        \A b \in BoardIds : \A r \in RowIds(b) :
            LET row == boards[b].rows[r]
                n == Len(row.items)
            IN  n >= 1 =>
                /\ row.items[1].x_mm = 0
                /\ \A k \in 1..Len(boards[b].cut_rects) :
                      LET c == boards[b].cut_rects[k]
                      IN  (c.orientation = "V" /\ c.y_mm = row.y_mm) =>
                              c.x_mm >= row.items[1].x_mm + row.items[1].width_mm
                /\ \A j \in 1..(n - 1) :
                      LET left == row.items[j]
                          edge == left.x_mm + left.width_mm
                      IN  /\ Cardinality({ k \in 1..Len(boards[b].cut_rects) :
                                LET c == boards[b].cut_rects[k]
                                IN  /\ c.orientation = "V"
                                    /\ c.x_mm = edge /\ c.y_mm = row.y_mm
                                    /\ c.width_mm = kerf /\ c.height_mm = row.h_mm }) = 1
                          /\ row.items[j + 1].x_mm = edge + kerf

\* A returned board with three items in one row and a kerf > 0.
C4_Witness ==
    /\ Returned_boards /\ kerf > 0
    /\ \E b \in BoardIds : \E r \in RowIds(b) : Len(boards[b].rows[r].items) = 3

\* C5: on every returned board the rows have strictly increasing y, the first
\* at y = 0; between consecutive rows there is exactly one H cut rectangle
\* (x = 0, full material width, height kerf, at the upper row's bottom edge),
\* and the lower row starts at that bottom edge + kerf.
C5_HorizontalKerfs ==
    Returned_boards =>
        \A b \in BoardIds :
            LET rows == boards[b].rows
            IN  /\ rows # <<>> => rows[1].y_mm = 0
                /\ \A j \in 1..(Len(rows) - 1) :
                      LET bottom == rows[j].y_mm + rows[j].h_mm
                      IN  /\ rows[j + 1].y_mm > rows[j].y_mm
                          /\ rows[j + 1].y_mm = bottom + kerf
                          /\ Cardinality({ k \in 1..Len(boards[b].cut_rects) :
                                LET c == boards[b].cut_rects[k]
                                IN  /\ c.orientation = "H"
                                    /\ c.x_mm = 0 /\ c.y_mm = bottom
                                    /\ c.width_mm = material.width_mm
                                    /\ c.height_mm = kerf }) = 1

\* A returned board with two rows that hold items, and a kerf > 0.
C5_Witness ==
    /\ Returned_boards /\ kerf > 0
    /\ \E b \in BoardIds :
          /\ Len(boards[b].rows) = 2
          /\ boards[b].rows[1].items # <<>> /\ boards[b].rows[2].items # <<>>

RowHeightsUniform ==
    \A b \in BoardIds : \A r \in RowIds(b) :
        \A k \in 1..Len(boards[b].rows[r].items) :
            boards[b].rows[r].items[k].height_mm = boards[b].rows[r].h_mm

RowHeightsFixed ==
    \A b \in BoardIds : \A r \in RowIds(b) :
        /\ b \in 1..Len(boards') /\ r \in 1..Len(boards'[b].rows)
        /\ boards'[b].rows[r].h_mm = boards[b].rows[r].h_mm

\* C6: at every point of packing all items of a row have the row's h_mm as
\* their height, and a row's h_mm never changes once the row exists.
C6_RowHeight == [](RowHeightsUniform) /\ [][RowHeightsFixed]_vars

\* Packing still under way, with a row that holds two items of a rotated and
\* an unrotated unit.
C6_Witness ==
    /\ pc \notin {"done", "failed", "start"}
    /\ \E b \in BoardIds : \E r \in RowIds(b) :
          LET its == boards[b].rows[r].items
          IN  Len(its) >= 2 /\ its[1].rotated # its[2].rotated

(***************************************************************************)
(* packing.py: assign_any_items_to_materials.  The materials mapping is    *)
(* the sequence of its values in iteration order; the outcome carries the  *)
(* item list as the call leaves it (items are mutated in place).           *)
(***************************************************************************)
\* Mutant: the board is also tried turned, its length taken for its width.
FitsMaterial_either_way(cs, m) ==
    \E k \in 1..Len(cs) :
        \/ cs[k][1] <= m.width_mm /\ cs[k][2] <= m.length_mm
        \/ cs[k][1] <= m.length_mm /\ cs[k][2] <= m.width_mm

\* any((w <= m.width_mm and h <= m.length_mm) for (w, h, _) in cands)
FitsMaterial(cs, m) ==
    \E k \in 1..Len(cs) : cs[k][1] <= m.width_mm /\ cs[k][2] <= m.length_mm

\* valid_materials of one item: the materials, in order, with a fitting candidate.
ValidMaterials(it, mats, enforce) ==
    LET cs == get_orientation_candidates(it, enforce)[1]
        Valid(m) == cs # <<>> /\ FitsMaterial(cs, m)
    IN  SelectSeq(mats, Valid)

\* m1.cost / (m1.length_mm * m1.width_mm) < m2.cost / (m2.length_mm * m2.width_mm),
\* compared without the division (the areas are positive).
CheaperPerArea(m1, m2) ==
    m1.cost * (m2.length_mm * m2.width_mm) < m2.cost * (m1.length_mm * m1.width_mm)

\* Mutant: a later material of equal cost per area replaces the earlier one.
RECURSIVE MinByCostPerArea_last_tie(_)
MinByCostPerArea_last_tie(ms) ==
    IF Len(ms) = 1 THEN ms[1]
    ELSE LET best == MinByCostPerArea_last_tie(SubSeq(ms, 1, Len(ms) - 1))
         IN  IF CheaperPerArea(best, ms[Len(ms)]) THEN best ELSE ms[Len(ms)]

\* Mutant: the board price is compared, not the price per area.
RECURSIVE MinByCostPerArea_raw_cost(_)
MinByCostPerArea_raw_cost(ms) ==
    IF Len(ms) = 1 THEN ms[1]
    ELSE LET best == MinByCostPerArea_raw_cost(SubSeq(ms, 1, Len(ms) - 1))
         IN  IF ms[Len(ms)].cost < best.cost THEN ms[Len(ms)] ELSE best

\* min(valid_materials, key=cost per area): the first of the smallest.
RECURSIVE MinByCostPerArea(_)
MinByCostPerArea(ms) ==
    IF Len(ms) = 1 THEN ms[1]
    ELSE LET best == MinByCostPerArea(SubSeq(ms, 1, Len(ms) - 1))
         IN  IF CheaperPerArea(ms[Len(ms)], best) THEN ms[Len(ms)] ELSE best

\* The loop over items from position i on; items holds the assignments made.
RECURSIVE AssignFrom(_, _, _, _)
AssignFrom(items, i, mats, enforce) ==
    IF i > Len(items) THEN [status |-> "returned", items |-> items, msg |-> ""]
    ELSE IF items[i].material_key # None THEN AssignFrom(items, i + 1, mats, enforce)
    ELSE LET valid == ValidMaterials(items[i], mats, enforce)
         IN  IF valid = <<>>
             THEN [status |-> "raised", items |-> items,
                   msg |-> "Item '" \o items[i].name \o
                           "' cannot fit ANY material (considering rotations & wrap rules)."]
             ELSE AssignFrom([items EXCEPT ![i].material_key = MinByCostPerArea(valid).name],
                             i + 1, mats, enforce)

assign_any_items_to_materials(items, mats, enforce) ==
    IF mats = <<>>
    THEN [status |-> "raised", items |-> items,
          msg |-> "No materials available for assignment."]
    ELSE AssignFrom(items, 1, mats, enforce)

(***************************************************************************)
(* SpecAssign: assign_any_items_to_materials on inputs drawn in InitAssign.*)
(***************************************************************************)
\* A 600x400 and a 300x200 board of equal price per area, a dearer 450x300
\* board and a cheaper 200x200 board.
AssignMaterialPool ==
    { MaterialSpec("A", 600, 400, 100), MaterialSpec("B", 450, 300, 80),
      MaterialSpec("C", 300, 200, 25), MaterialSpec("D", 200, 200, 10) }

\* The orderings of at most n distinct materials of the pool.
RECURSIVE MaterialLists(_)
MaterialLists(n) ==
    IF n = 0 THEN {<<>>}
    ELSE LET shorter == MaterialLists(n - 1)
             Fresh(ms, m) == \A i \in 1..Len(ms) : ms[i] # m
             longest == { ms \in shorter : Len(ms) = n - 1 }
         IN  shorter \cup
             UNION { { Append(ms, m) : m \in { x \in AssignMaterialPool : Fresh(ms, x) } } :
                     ms \in longest }

\* <<length, width, rotation_allowed, wrap_l, material_key>>
AssignShapes ==
    { <<300, 200, FALSE, 0, None>>,   \* fits A, B and C
      <<200, 300, TRUE, 0, None>>,    \* fits C only when rotated
      <<100, 450, TRUE, 0, None>>,    \* fits A and B only, rotated
      <<200, 200, FALSE, 18, None>>,  \* banded: no legal orientation under enforcement
      <<700, 100, TRUE, 0, None>>,    \* fits no material
      <<300, 200, FALSE, 0, "B">>,    \* pinned
      <<700, 100, TRUE, 0, "Z">> }    \* pinned to a name outside the mapping

NameAssignItems(shapes) ==
    [i \in 1..Len(shapes) |->
        ItemSpec(Names[i], shapes[i][1], shapes[i][2], 1, shapes[i][3],
                 shapes[i][4], 0, 0, 0, shapes[i][5])]

AssignCalls ==
    {[fn |-> "assign_any_items_to_materials", items |-> NameAssignItems(shapes),
      materials |-> ms, enforce_wrap_rules |-> e] :
        shapes \in SeqsUpTo(AssignShapes, MaxAssignItems),
        ms \in MaterialLists(MaxMaterials), e \in BOOLEAN}

InitAssign ==
    /\ call \in AssignCalls
    /\ ret = Pending
    /\ PackIdle

CallAssign ==
    /\ call.fn = "assign_any_items_to_materials" /\ ret = Pending
    /\ ret' = assign_any_items_to_materials(call.items, call.materials,
                                           call.enforce_wrap_rules)
    /\ UNCHANGED <<call, packvars>>

NextAssign == CallAssign

SpecAssign == InitAssign /\ [][NextAssign]_vars

AssignReturned == call.fn = "assign_any_items_to_materials" /\ ret.status = "returned"

\* Material i of the call hosts some orientation candidate of item it.
Hosts(i, it) ==
    LET cs == get_orientation_candidates(it, call.enforce_wrap_rules)[1]
        m == call.materials[i]
    IN  \E k \in 1..Len(cs) : cs[k][1] <= m.width_mm /\ cs[k][2] <= m.length_mm

\* cost / area of material i is at most that of material j (cross-multiplied).
NotDearer(i, j) ==
    LET a == call.materials[i]
        b == call.materials[j]
    IN  a.cost * b.length_mm * b.width_mm <= b.cost * a.length_mm * a.width_mm

\* C11: after assign_any_items_to_materials returns, every unpinned item has
\* the key of the material of least cost / (length * width) among exactly
\* the materials that host one of its orientation candidates, the earliest in
\* the mapping's order among equals; pinned items are unchanged.
C11_CheapestFittingMaterial ==
    AssignReturned =>
        /\ Len(ret.items) = Len(call.items)
        /\ \A n \in 1..Len(call.items) :
              LET before == call.items[n]
                  after == ret.items[n]
                  mats == 1..Len(call.materials)
              IN  IF before.material_key # None
                  THEN after = before
                  ELSE /\ after = [before EXCEPT !.material_key = after.material_key]
                       /\ \E i \in mats :
                             /\ call.materials[i].name = after.material_key
                             /\ Hosts(i, before)
                             /\ \A j \in mats : Hosts(j, before) => NotDearer(i, j)
                             /\ \A j \in mats :
                                   (Hosts(j, before) /\ NotDearer(j, i)) => i <= j

\* An unpinned item assigned to the earlier of two hosting materials of equal
\* least price per area, while a cheaper material of the mapping cannot host it.
C11_Witness ==
    /\ AssignReturned
    /\ \E n \in 1..Len(call.items) : \E i, j, k \in 1..Len(call.materials) :
          /\ call.items[n].material_key = None
          /\ ret.items[n].material_key = call.materials[i].name
          /\ i < j /\ Hosts(j, call.items[n])
          /\ NotDearer(j, i) /\ NotDearer(i, j)
          /\ ~Hosts(k, call.items[n]) /\ ~NotDearer(i, k)

(***************************************************************************)
(* models.py: BoardLayout.used_width_mm and classify_board_size.           *)
(***************************************************************************)
\* sum(i.width_mm for i in r.items)
RECURSIVE ItemWidthSum(_)
ItemWidthSum(items) ==
    IF items = <<>> THEN 0 ELSE items[1].width_mm + ItemWidthSum(Tail(items))

\* Mutant: the right edge of the row, kerf gaps included.
RowUsedWidth_with_kerf(row) == row.x_cursor

RowUsedWidth(row) == ItemWidthSum(row.items)

\* max(... for r in self.rows, default=0.0), 0.0 with no rows
RECURSIVE used_width_mm(_)
used_width_mm(board) ==
    IF board.rows = <<>> THEN 0
    ELSE LET n == Len(board.rows)
             rest == used_width_mm([board EXCEPT !.rows = SubSeq(@, 1, n - 1)])
         IN  Max2(RowUsedWidth(board.rows[n]), rest)

\* Mutant: the wide half is tested before the narrow half.
classify_board_size_wide_first(board) ==
    LET uL == used_length_mm(board)
        uW == used_width_mm(board)
        L == board.material.length_mm
        W == board.material.width_mm
    IN  IF uL <= L /\ 2 * uW <= W THEN "wide_half"
        ELSE IF 2 * uL <= L /\ uW <= W THEN "narrow_half"
        ELSE "full"

\* uL <= L/2 is 2 * uL <= L: the division is exact in Python.
classify_board_size(board) ==
    LET uL == used_length_mm(board)
        uW == used_width_mm(board)
        L == board.material.length_mm
        W == board.material.width_mm
        narrow_ok == (2 * uL <= L) /\ (uW <= W)
        wide_ok == (uL <= L) /\ (2 * uW <= W)
    IN  IF narrow_ok /\ wide_ok THEN "narrow_half"
        ELSE IF narrow_ok THEN "narrow_half"
        ELSE IF wide_ok THEN "wide_half"
        ELSE "full"

(***************************************************************************)
(* costing.py: compute_summary.  Amounts that the code holds in halves of  *)
(* a board (billed_quantity, cost, grand_total_cost) are kept doubled, as  *)
(* integers: billed_quantity_x2 = 2 * billed_quantity, and so on.          *)
(***************************************************************************)
compute_wrap_length_for_item(pi) ==
    pi.height_mm * _side_count(pi.spec.wrap_l, pi.spec.wrap_r)
        + pi.width_mm * _side_count(pi.spec.wrap_t, pi.spec.wrap_b)

\* The number of boards of the list that classify as t.
RECURSIVE CountOfType(_, _)
CountOfType(bs, t) ==
    IF bs = <<>> THEN 0
    ELSE (IF classify_board_size(bs[1]) = t THEN 1 ELSE 0) + CountOfType(Tail(bs), t)

\* Mutant: a leftover half is billed as a whole board.
BilledQuantityX2_round_up(full, halves) == 2 * (full + (halves \div 2) + (halves % 2))

\* 2 * (full_boards + whole_from_halves + 0.5 * leftover_half)
BilledQuantityX2(full, halves) == 2 * full + 2 * (halves \div 2) + (halves % 2)

MaterialUsageSummary(mat, bs) ==
    LET full == CountOfType(bs, "full")
        narrow == CountOfType(bs, "narrow_half")
        wide == CountOfType(bs, "wide_half")
        billed == BilledQuantityX2(full, narrow + wide)
    IN  [material |-> mat, full_boards |-> full, narrow_halves |-> narrow,
         wide_halves |-> wide, billed_quantity_x2 |-> billed,
         cost_x2 |-> billed * mat.cost]

RECURSIVE CutLengthOf(_)
CutLengthOf(cuts) ==
    IF cuts = <<>> THEN 0 ELSE cuts[1].cut_length_mm + CutLengthOf(Tail(cuts))

RECURSIVE WrapLengthOf(_)
WrapLengthOf(items) ==
    IF items = <<>> THEN 0
    ELSE compute_wrap_length_for_item(items[1]) + WrapLengthOf(Tail(items))

RECURSIVE TotalCut(_)
TotalCut(bs) == IF bs = <<>> THEN 0 ELSE CutLengthOf(bs[1].cut_rects) + TotalCut(Tail(bs))

RECURSIVE TotalWrap(_)
TotalWrap(bs) == IF bs = <<>> THEN 0 ELSE WrapLengthOf(bs[1].placed_items) + TotalWrap(Tail(bs))

\* All the boards of the mapping, material after material.
RECURSIVE AllBoards(_)
AllBoards(material_boards) ==
    IF material_boards = <<>> THEN <<>>
    ELSE material_boards[1].boards \o AllBoards(Tail(material_boards))

\* material_boards is the sequence of the mapping's entries [name, boards];
\* materials the sequence of the MaterialSpec values.
compute_summary(material_boards, materials, cut_cost_per_mm, wrap_cost_per_mm) ==
    LET MaterialNamed(n) == CHOOSE m \in {materials[i] : i \in 1..Len(materials)} : m.name = n
        usages == [i \in 1..Len(material_boards) |->
                      MaterialUsageSummary(MaterialNamed(material_boards[i].name),
                                           material_boards[i].boards)]
        total_cut == TotalCut(AllBoards(material_boards))
        total_wrap == TotalWrap(AllBoards(material_boards))
    IN  [material_usages |-> usages,
         total_cut_length_mm |-> total_cut,
         total_cut_cost |-> total_cut * cut_cost_per_mm,
         total_wrap_length_mm |-> total_wrap,
         total_wrap_cost |-> total_wrap * wrap_cost_per_mm,
         grand_total_cost_x2 |->
             SumSeq([i \in 1..Len(usages) |-> usages[i].cost_x2])
                 + 2 * (total_cut * cut_cost_per_mm) + 2 * (total_wrap * wrap_cost_per_mm)]

(***************************************************************************)
(* SpecCost: classify_board_size and compute_summary on boards laid out    *)
(* with start_new_row and try_place_on_row.                                *)
(***************************************************************************)
\* One row of height h holding items of the given widths, appended to board.
RECURSIVE PlaceWidths(_, _, _, _)
PlaceWidths(board, h, ws, wl) ==
    IF ws = <<>> THEN board
    ELSE LET it == ItemSpec(Names[Len(board.placed_items) + 1], h, ws[1], 1, FALSE,
                            wl, 0, 0, 0, board.material.name)
         IN  PlaceWidths(try_place_on_row(board, Len(board.rows), it, ws[1], h, FALSE)[2],
                         h, Tail(ws), wl)

\* rows is a sequence of <<height, widths>>.
RECURSIVE LayOut(_, _, _)
LayOut(board, rows, wl) ==
    IF rows = <<>> THEN board
    ELSE LayOut(PlaceWidths(start_new_row(board, rows[1][1]), rows[1][1], rows[1][2], wl),
                Tail(rows), wl)

\* Row plans for a board of length L and width W, by name.
BoardPlan(plan, L, W) ==
    CASE plan = "empty" -> <<>>
      [] plan = "narrow_only" -> << <<L \div 2, <<W>> >> >>
      [] plan = "both" -> << <<L \div 2, <<W \div 2>> >> >>
      [] plan = "wide_only" -> << <<L \div 2, <<W \div 2>> >>, <<100, <<W \div 4>> >> >>
      [] plan = "wide_by_sum" -> << <<(L \div 2) + 50, <<W \div 4, W \div 4>> >> >>
      [] plan = "full" -> << <<(L \div 2) + 50, <<W \div 4, (W \div 4) + 10>> >> >>
      [] plan = "full_second_row" ->
            << <<L \div 2, <<W \div 4>> >>, <<100, <<(W \div 2) + 10>> >> >>

BoardPlans ==
    {"empty", "narrow_only", "both", "wide_only", "wide_by_sum", "full", "full_second_row"}

SummaryPlans == {"narrow_only", "wide_by_sum", "full"}

PlannedBoard(mat, index, k, plan, wl) ==
    LayOut(BoardLayout(mat, index, k), BoardPlan(plan, mat.length_mm, mat.width_mm), wl)

PlannedBoards(mat, k, plans, wl) ==
    [i \in 1..Len(plans) |-> PlannedBoard(mat, i - 1, k, plans[i], wl)]

CostMaterials == << MaterialSpec("M", 600, 400, 100), MaterialSpec("N", 450, 300, 80) >>

ClassifyCalls ==
    {[fn |-> "classify_board_size", board |-> PlannedBoard(m, 0, k, plan, 0)] :
        m \in PackMaterials, k \in Kerfs, plan \in BoardPlans}

SummaryCalls ==
    {[fn |-> "compute_summary",
      material_boards |->
          << [name |-> "M", boards |-> PlannedBoards(CostMaterials[1], 4, ps, wl)],
             [name |-> "N", boards |-> PlannedBoards(CostMaterials[2], 4, qs, wl)] >>,
      materials |-> CostMaterials,
      cut_cost_per_mm |-> cc, wrap_cost_per_mm |-> wc] :
        ps \in SeqsUpTo(SummaryPlans, MaxBoards),
        qs \in SeqsUpTo(SummaryPlans, MaxOtherBoards),
        wl \in WrapFlagValues, cc \in {2}, wc \in {3}}

InitCost ==
    /\ call \in ClassifyCalls \cup SummaryCalls
    /\ ret = Pending
    /\ PackIdle

CallClassify ==
    /\ call.fn = "classify_board_size" /\ ret = Pending
    /\ ret' = Returned(classify_board_size(call.board))
    /\ UNCHANGED <<call, packvars>>

CallComputeSummary ==
    /\ call.fn = "compute_summary" /\ ret = Pending
    /\ ret' = Returned(compute_summary(call.material_boards, call.materials,
                                       call.cut_cost_per_mm, call.wrap_cost_per_mm))
    /\ UNCHANGED <<call, packvars>>

NextCost == CallClassify \/ CallComputeSummary

SpecCost == InitCost /\ [][NextCost]_vars

ClassifyDone == call.fn = "classify_board_size" /\ ret.status = "returned"

\* Bottom edge of the last row of the classified board, 0 with no rows.
UsedLength ==
    LET rows == call.board.rows
    IN  IF rows = <<>> THEN 0 ELSE rows[Len(rows)].y_mm + rows[Len(rows)].h_mm

\* Width sums of the rows of the classified board, kerf gaps left out.
RowWidthSums ==
    {SumSeq([j \in 1..Len(call.board.rows[r].items) |->
                call.board.rows[r].items[j].width_mm]) : r \in 1..Len(call.board.rows)}

UsedWidth == IF RowWidthSums = {} THEN 0 ELSE CHOOSE m \in RowWidthSums : \A s \in RowWidthSums : s <= m

NarrowHolds == 2 * UsedLength <= call.board.material.length_mm
               /\ UsedWidth <= call.board.material.width_mm

WideHolds == UsedLength <= call.board.material.length_mm
             /\ 2 * UsedWidth <= call.board.material.width_mm

\* C12: classify_board_size returns narrow_half whenever the narrow condition
\* holds (the wide one holding or not), wide_half iff the narrow condition
\* fails and the wide one holds, and full otherwise; used length is the bottom
\* edge of the last row (0 with no rows) and used width the largest per-row sum
\* of item widths, kerf gaps not counted.
C12_Classification ==
    ClassifyDone =>
        /\ NarrowHolds => ret.value = "narrow_half"
        /\ (ret.value = "wide_half") <=> (~NarrowHolds /\ WideHolds)
        /\ (~NarrowHolds /\ ~WideHolds) => ret.value = "full"

\* A board meeting both conditions classified narrow_half.
C12_Witness ==
    /\ ClassifyDone /\ NarrowHolds /\ WideHolds /\ call.board.rows # <<>>
    /\ ret.value = "narrow_half"

SummaryDone == call.fn = "compute_summary" /\ ret.status = "returned"

\* The positions of the boards of entry i of the mapping that classify as t.
BoardsOfType(i, types) ==
    {j \in 1..Len(call.material_boards[i].boards) :
        classify_board_size(call.material_boards[i].boards[j]) \in types}

FullCount(i) == Cardinality(BoardsOfType(i, {"full"}))

HalfCount(i) == Cardinality(BoardsOfType(i, {"narrow_half", "wide_half"}))

\* C13: for every material of compute_summary, with F boards classified full
\* and H boards classified narrow_half or wide_half, twice the billed quantity
\* is 2 * F + H; so three halves bill 1.5, four halves 2.0 and one full board
\* plus one half 1.5.
C13_HalvesBillInPairs ==
    SummaryDone =>
        /\ Len(ret.value.material_usages) = Len(call.material_boards)
        /\ \A i \in 1..Len(call.material_boards) :
              LET mu == ret.value.material_usages[i]
              IN  /\ mu.material.name = call.material_boards[i].name
                  /\ mu.billed_quantity_x2 = 2 * FullCount(i) + HalfCount(i)
                  /\ (FullCount(i) = 0 /\ HalfCount(i) = 3) => mu.billed_quantity_x2 = 3
                  /\ (FullCount(i) = 0 /\ HalfCount(i) = 4) => mu.billed_quantity_x2 = 4
                  /\ (FullCount(i) = 1 /\ HalfCount(i) = 1) => mu.billed_quantity_x2 = 3

\* One material with four halves of both kinds billed 2.0 while the other has
\* a single half billed 0.5.
C13_Witness ==
    /\ SummaryDone
    /\ FullCount(1) = 0 /\ HalfCount(1) = 4
    /\ BoardsOfType(1, {"narrow_half"}) # {} /\ BoardsOfType(1, {"wide_half"}) # {}
    /\ ret.value.material_usages[1].billed_quantity_x2 = 4
    /\ FullCount(2) = 0 /\ HalfCount(2) = 1
    /\ ret.value.material_usages[2].billed_quantity_x2 = 1

InScenario ==
    /\ material \in ScenarioMaterials
    /\ item_specs \in ScenarioSpecs(material.name)

\* Both units side by side in the only row of the only board, which has
\* index 0, the row being h high, with one vertical kerf CutRect between
\* them and no other CutRect.
ScenarioLayout(h) ==
    /\ Len(boards) = 1 /\ boards[1].index = 0
    /\ Len(boards[1].rows) = 1
    /\ boards[1].rows[1].y_mm = 0 /\ boards[1].rows[1].h_mm = h
    /\ Len(boards[1].rows[1].items) = 2
    /\ boards[1].placed_items = boards[1].rows[1].items
    /\ \A i \in 1..2 : ~boards[1].placed_items[i].rotated
                       /\ boards[1].placed_items[i].y_mm = 0
    /\ boards[1].placed_items[1].x_mm = 0
    /\ boards[1].placed_items[2].x_mm = boards[1].placed_items[1].width_mm + kerf
    /\ Len(boards[1].cut_rects) = 1
    /\ boards[1].cut_rects[1].orientation = "V"
    /\ boards[1].cut_rects[1].x_mm = boards[1].placed_items[1].width_mm
    /\ boards[1].cut_rects[1].width_mm = kerf

\* C14 as stated: in the end-to-end scenario the two 400x300 units share one
\* row of height 300 on the first board, with exactly one vertical kerf
\* CutRect between them and no other CutRect.
C14_AsStated == (InScenario /\ Returned_boards) => ScenarioLayout(300)

\* C14, amended: in the end-to-end scenario the two units, 400 long and 300
\* wide and not rotated, share one row on the first board whose height is
\* their length, 400; each is 300 wide, and the one CutRect of the board is
\* the vertical kerf between them.
C14_ScenarioRow ==
    /\ InScenario => pc \notin {"failed", "newrow"}
    /\ (InScenario /\ Returned_boards) =>
          /\ ScenarioLayout(400)
          /\ \A i \in 1..2 : boards[1].placed_items[i].width_mm = 300
                             /\ boards[1].placed_items[i].height_mm = 400
          /\ boards[1].cut_rects[1].height_mm = 400

\* The scenario packed with the default kerf of 4 mm.
C14_Witness ==
    /\ InScenario /\ Returned_boards /\ kerf = 4
    /\ Len(boards[1].placed_items) = 2
    /\ boards[1].rows[1].h_mm = 400

\* Row `row` has the height of candidate c and room for it: its cursor plus
\* the candidate's width, plus the kerf when the row holds an item already,
\* does not pass the board width.
RowTakes(row, c) ==
    /\ c[2] = row.h_mm
    /\ row.x_cursor + c[1] + (IF Len(row.items) > 0 THEN kerf ELSE 0) <= row.board_width_mm

\* Row r of board bi gains the current unit as candidate ci in this step, and
\* the other rows of the board stay as they are.
UnitJoinsRow(r) ==
    LET before == boards[bi].rows[r]
        after == boards'[bi].rows[r]
        n == Len(before.items)
    IN  /\ Len(boards'[bi].rows) = Len(boards[bi].rows)
        /\ Len(after.items) = n + 1
        /\ SubSeq(after.items, 1, n) = before.items
        /\ after.items[n + 1].spec = units[ui]
        /\ after.items[n + 1].width_mm = cands[ci][1]
        /\ after.items[n + 1].height_mm = cands[ci][2]
        /\ \A q \in 1..Len(boards[bi].rows) : q # r => boards'[bi].rows[q] = boards[bi].rows[q]

\* Trying the existing rows of a board places the unit in the first row that
\* takes the candidate, and changes nothing when no row takes it.
ExistingRowsStep ==
    pc = "rows" =>
        LET takers == {r \in 1..Len(boards[bi].rows) : RowTakes(boards[bi].rows[r], cands[ci])}
        IN  IF takers = {}
            THEN boards' = boards /\ pc' = "newrow"
            ELSE /\ pc' = "unit"
                 /\ \E r \in takers : (\A q \in takers : r <= q) /\ UnitJoinsRow(r)

\* A freshly opened row, empty and of the candidate's height, takes the unit
\* iff the candidate is no wider than the board.
NewRowStep ==
    (pc = "newrow" /\ NewRowFeasible(boards[bi], cands[ci][2], material)) =>
        ((pc' = "unit") <=> (cands[ci][1] <= boards[bi].material.width_mm))

\* The returned layout of a run of exactly two units: the first placed item
\* and the second.
TwoUnitsPlaced ==
    /\ Returned_boards /\ Len(units) = 2
    /\ Len(boards[1].rows[1].items) >= 1

FirstPlaced == boards[1].rows[1].items[1]

SecondSharesRow == Len(boards[1].rows[1].items) = 2

SecondPlaced ==
    IF SecondSharesRow THEN boards[1].rows[1].items[2]
    ELSE CHOOSE p \in UNION {ItemsOf(b) : b \in BoardIds} : p # FirstPlaced

TwoSameHeight ==
    (TwoUnitsPlaced /\ FirstPlaced.height_mm = SecondPlaced.height_mm) =>
        (SecondSharesRow <=>
            FirstPlaced.width_mm + kerf + SecondPlaced.width_mm <= material.width_mm)

\* C15: a row accepts a candidate (w, h) iff h is the row's height and
\* x_cursor + w, plus the kerf when the row already holds an item, is at most
\* the board width (equality accepted); so the second of two items of the same
\* height joins the first item's row iff w1 + kerf + w2 <= board width, and is
\* placed in another row or on another board otherwise.
C15_RowAcceptance == [](TwoSameHeight) /\ [][ExistingRowsStep /\ NewRowStep]_vars

\* Two items of one height share a row that they fill to the edge exactly.
C15_Witness ==
    /\ TwoUnitsPlaced /\ SecondSharesRow
    /\ FirstPlaced.width_mm + kerf + SecondPlaced.width_mm = material.width_mm

\* Two items of one height that do not fit side by side lie in different rows.
C15_WitnessApart ==
    /\ TwoUnitsPlaced /\ ~SecondSharesRow
    /\ FirstPlaced.height_mm = SecondPlaced.height_mm
    /\ FirstPlaced.width_mm + kerf + SecondPlaced.width_mm > material.width_mm

\* Candidate c fits an empty board of the material.
FitsMaterialBoard(c) == c[1] <= material.width_mm /\ c[2] <= material.length_mm

\* The positions of the candidates of the current unit that fit an empty board.
FittingCandidates == {i \in 1..Len(cands) : FitsMaterialBoard(cands[i])}

\* Open board b can host candidate c: an existing row takes it, or a new row
\* of its height fits under the last row and the candidate is no wider than
\* the board.
BoardHosts(b, c) ==
    \/ \E r \in RowIds(b) : RowTakes(boards[b].rows[r], c)
    \/ /\ used_length_mm(boards[b]) + (IF Len(boards[b].rows) > 0 THEN kerf ELSE 0) + c[2]
              <= material.length_mm
       /\ c[1] <= material.width_mm

\* A new board is about to be created only if no open board hosts the unit.
NewBoardOnlyWhenNeeded ==
    pc = "newboard" =>
        \A b \in BoardIds : \A i \in 1..Len(cands) : ~BoardHosts(b, cands[i])

\* The index of a board is the number of boards created before it.
IndexIsPosition == \A b \in BoardIds : boards[b].index = b - 1

\* The step taken at a new board: with a fitting candidate the list grows by
\* one board, which holds the unit alone at (0,0) in the dimensions of the
\* first fitting candidate and has no CutRect; with none the run fails with
\* the message of the raise.
NewBoardStep ==
    pc = "newboard" =>
        IF FittingCandidates = {}
        THEN /\ pc' = "failed"
             /\ error' = "Item '" \o units[ui].name \o "' cannot fit even on empty board."
        ELSE LET i == CHOOSE k \in FittingCandidates : \A q \in FittingCandidates : k <= q
                 nb == boards'[Len(boards) + 1]
             IN  /\ pc' = "unit"
                 /\ Len(boards') = Len(boards) + 1
                 /\ SubSeq(boards', 1, Len(boards)) = boards
                 /\ nb.index = Len(boards)
                 /\ nb.cut_rects = <<>>
                 /\ Len(nb.rows) = 1 /\ nb.rows[1].items = nb.placed_items
                 /\ Len(nb.placed_items) = 1
                 /\ nb.placed_items[1].spec = units[ui]
                 /\ nb.placed_items[1].x_mm = 0 /\ nb.placed_items[1].y_mm = 0
                 /\ nb.placed_items[1].width_mm = cands[i][1]
                 /\ nb.placed_items[1].height_mm = cands[i][2]
                 /\ nb.placed_items[1].rotated = cands[i][3]

\* A run that raised never returns a board list.
FailedStaysFailed == pc = "failed" => pc' = "failed"

\* C16: a new board is created only when no open board hosts the unit; its
\* index is the number of boards created before it; the unit is placed on it
\* at (0,0), with no CutRect, as the first candidate in candidate order with
\* w <= material width and h <= material length; with no such candidate
\* build_boards_for_material raises and returns no board list.
C16_NewBoard ==
    /\ [](NewBoardOnlyWhenNeeded /\ IndexIsPosition)
    /\ [][NewBoardStep /\ FailedStaysFailed]_vars

\* A second board was just created for a unit whose first candidate is wider
\* than the material: it holds the unit alone, rotated, at the origin.
C16_Witness ==
    /\ pc = "unit" /\ Len(boards) = 2 /\ ui > 1
    /\ Len(cands) = 2 /\ ~FitsMaterialBoard(cands[1])
    /\ Len(boards[2].placed_items) = 1
    /\ boards[2].placed_items[1].spec = units[ui - 1]
    /\ boards[2].placed_items[1].rotated
    /\ boards[2].placed_items[1].x_mm = 0 /\ boards[2].placed_items[1].y_mm = 0
    /\ boards[2].cut_rects = <<>>

\* The number of units of the first n specs.
RECURSIVE UnitsUpTo(_)
UnitsUpTo(n) == IF n = 0 THEN 0 ELSE UnitsUpTo(n - 1) + item_specs[n].quantity

\* Unit k of the expanded input list: specs in input order, each repeated
\* quantity times.
ExpandedUnit(k) ==
    item_specs[CHOOSE i \in 1..Len(item_specs) : UnitsUpTo(i - 1) < k /\ k <= UnitsUpTo(i)]

ExpandedIds == 1..UnitsUpTo(Len(item_specs))

LargestSide(it) == IF it.length_mm >= it.width_mm THEN it.length_mm ELSE it.width_mm

\* Where unit k of the expanded list stands in the processing order: after the
\* units with a larger side and after the earlier units with an equal one.
ProcessingRank(k) ==
    1 + Cardinality({j \in ExpandedIds : LargestSide(ExpandedUnit(j)) > LargestSide(ExpandedUnit(k))})
      + Cardinality({j \in ExpandedIds :
                        j < k /\ LargestSide(ExpandedUnit(j)) = LargestSide(ExpandedUnit(k))})

UnitsInOrder ==
    pc # "start" =>
        /\ Len(units) = UnitsUpTo(Len(item_specs))
        /\ \A k \in ExpandedIds : units[ProcessingRank(k)] = ExpandedUnit(k)
        /\ \A k \in 1..(Len(units) - 1) : LargestSide(units[k]) >= LargestSide(units[k + 1])
        /\ ui \in 1..(Len(units) + 1)

\* The units are taken one after the other, from a list that stays as sorted.
OneUnitAfterTheOther ==
    pc # "start" => (units' = units /\ (ui' = ui \/ (ui' = ui + 1 /\ pc' = "unit")))

\* C17: build_boards_for_material processes the units in non-increasing order
\* of max(nominal length, nominal width), and units of equal max dimension in
\* their relative order in the expanded input list (specs in input order, each
\* repeated quantity times).
C17_ProcessingOrder == [](UnitsInOrder) /\ [][OneUnitAfterTheOther]_vars

\* A returned run in which a later spec was processed first, and two specs of
\* equal largest side kept their input order.
C17_Witness ==
    /\ Returned_boards /\ Len(item_specs) = 3 /\ Len(units) = 3
    /\ units[1] = item_specs[3]
    /\ units[2] = item_specs[1] /\ units[3] = item_specs[2]
    /\ LargestSide(item_specs[1]) = LargestSide(item_specs[2])
    /\ LargestSide(item_specs[3]) > LargestSide(item_specs[1])

\* The horizontal kerf rectangles recorded on board b.
HorizontalCuts(b) ==
    {k \in 1..Len(boards[b].cut_rects) : boards[b].cut_rects[k].orientation = "H"}

\* The rows of board b that hold no item.
EmptyRows(b) == {r \in RowIds(b) : boards[b].rows[r].items = <<>>}

\* C18: every row of every returned board holds at least one placed item; a
\* new-row attempt that did not place its unit left no empty row and no
\* horizontal kerf CutRect behind, so the board has one horizontal kerf per
\* row after the first and its used length ends at a row that holds items.
C18_NoEmptyRow ==
    Returned_boards =>
        \A b \in BoardIds :
            /\ EmptyRows(b) = {}
            /\ Cardinality(HorizontalCuts(b)) = Len(boards[b].rows) - 1

\* The rectangles of board b: those of its placed items, then its kerf cuts.
RectsOf(b) ==
    [k \in 1..Len(boards[b].placed_items) |->
        [x |-> boards[b].placed_items[k].x_mm, y |-> boards[b].placed_items[k].y_mm,
         w |-> boards[b].placed_items[k].width_mm, h |-> boards[b].placed_items[k].height_mm,
         kind |-> "item"]]
    \o
    [k \in 1..Len(boards[b].cut_rects) |->
        [x |-> boards[b].cut_rects[k].x_mm, y |-> boards[b].cut_rects[k].y_mm,
         w |-> boards[b].cut_rects[k].width_mm, h |-> boards[b].cut_rects[k].height_mm,
         kind |-> "cut"]]

\* The interiors of rectangles p and q meet.
Overlap(p, q) ==
    /\ p.x < q.x + q.w /\ q.x < p.x + p.w
    /\ p.y < q.y + q.h /\ q.y < p.y + p.h

\* C19: on every returned board, for kerf > 0 and items of positive
\* dimensions, the rectangles of the placed items and of the kerf cuts are
\* pairwise interior-disjoint: no two items overlap, no item overlaps a cut,
\* no two cuts overlap.
C19_NoOverlap ==
    (Returned_boards /\ kerf > 0) =>
        \A b \in BoardIds :
            LET rects == RectsOf(b)
            IN  \A i, j \in 1..Len(rects) : i < j => ~Overlap(rects[i], rects[j])

\* A returned board, kerf > 0, with items in two rows that hold items, a
\* vertical and a horizontal kerf cut.
C19_Witness ==
    /\ Returned_boards /\ kerf > 0
    /\ \E b \in BoardIds :
          /\ Len(boards[b].placed_items) = 3
          /\ Len(boards[b].rows) = 2 /\ EmptyRows(b) = {}
          /\ \E k \in 1..Len(boards[b].cut_rects) : boards[b].cut_rects[k].orientation = "V"
          /\ HorizontalCuts(b) # {}

\* Every item recorded on any board, in any row or item list.
AllItems == UNION {ItemsOf(b) : b \in BoardIds}

HasPerpendicularBand(s) == s.wrap_t > 0 \/ s.wrap_b > 0

HasParallelBand(s) == s.wrap_l > 0 \/ s.wrap_r > 0

\* The wrap policy on the placed dimensions, height as length: with a top or
\* bottom band both sides are at least 150; with only left or right bands the
\* length is at least 300 and the width at least 65.
PlacedMeetsWrapRules(p) ==
    /\ HasPerpendicularBand(p.spec) => (p.height_mm >= 150 /\ p.width_mm >= 150)
    /\ (~HasPerpendicularBand(p.spec) /\ HasParallelBand(p.spec)) =>
           (p.height_mm >= 300 /\ p.width_mm >= 65)

PlacedMatchesSpec(p) ==
    /\ ~p.rotated => (p.width_mm = p.spec.width_mm /\ p.height_mm = p.spec.length_mm)
    /\ p.rotated => (p.width_mm = p.spec.length_mm /\ p.height_mm = p.spec.width_mm)
    /\ p.rotated => p.spec.rotation_allowed

\* C20: in a run with enforce_wrap_rules = True every placed item meets the
\* wrap policy in its placed dimensions (height as length, width as width),
\* has the spec's (width, length) as (width, height) when not rotated and the
\* spec's (length, width) when rotated, and is rotated only if its spec allows
\* rotation.
C20_PlacedOrientationLegal ==
    enforce_wrap_rules => \A p \in AllItems : PlacedMeetsWrapRules(p) /\ PlacedMatchesSpec(p)

\* A returned run under enforcement that placed a top-banded item and a
\* left-banded item whose unrotated orientation is illegal, rotated.
C20_Witness ==
    /\ Returned_boards /\ enforce_wrap_rules
    /\ \E p \in AllItems : HasPerpendicularBand(p.spec)
    /\ \E p \in AllItems :
          /\ HasParallelBand(p.spec) /\ ~HasPerpendicularBand(p.spec)
          /\ p.rotated /\ p.spec.length_mm < 300

(***************************************************************************)
(* main.py: main, from the parsed inputs on.  call holds what the input    *)
(* files gave (items, the materials mapping in order, the configuration);  *)
(* ret holds the locals of main: the stage reached, the items as mutated,  *)
(* items_by_material, material_boards, the summary, and in assign_calls    *)
(* the enforce_wrap_rules argument of each call of the assignment.         *)
(* Packing one material is the run of build_boards_for_material given by   *)
(* the packer's actions.                                                   *)
(***************************************************************************)
\* Mutant: the rules are enforced whatever the configuration says.
EnforceFlag_always(ignore_wrap_val) == TRUE

\* enforce_wrap_rules=not ignore_wrap_val, lines 53 and 75.
EnforceFlag(ignore_wrap_val) == ~ignore_wrap_val

\* Mutant: a failed validation never stops the run.
AfterValidation_never_stops(outcome, ignore_wrap_val) == "assign"

\* Lines 32-47: the stage after validate_wrapping returned or raised.
AfterValidation(outcome, ignore_wrap_val) ==
    IF outcome.status = "raised" /\ ~ignore_wrap_val THEN "stopped" ELSE "assign"

\* Lines 57-59: items_by_material, its keys in order of first appearance.
RECURSIVE GroupByMaterial(_, _)
GroupByMaterial(items, groups) ==
    IF items = <<>> THEN groups
    ELSE LET it == Head(items)
             at == {g \in 1..Len(groups) : groups[g].name = it.material_key}
         IN  IF at = {}
             THEN GroupByMaterial(Tail(items),
                      Append(groups, [name |-> it.material_key, items |-> <<it>>]))
             ELSE GroupByMaterial(Tail(items),
                      [groups EXCEPT ![CHOOSE g \in at : TRUE].items = Append(@, it)])

\* The positions of the materials of the mapping named n.
MaterialsNamed(mats, n) == {i \in 1..Len(mats) : mats[i].name = n}

MainLocals(stage) ==
    [stage |-> stage, wrap_ok |-> None, message |-> "", items |-> call.items,
     assign_calls |-> <<>>, groups |-> <<>>, gi |-> 0, material_boards |-> <<>>,
     summary |-> None, pdf |-> FALSE]

\* <<length, width, quantity, rotation_allowed, wrap_l, material_key>>
MainCatalog ==
    { <<300, 200, 2, FALSE, 0, None>>,    \* fits both boards, M is cheaper per area
      <<200, 300, 1, TRUE, 18, None>>,    \* banded: legal only rotated
      <<200, 300, 1, FALSE, 18, None>>,   \* banded and fixed: fails validation
      <<100, 450, 2, TRUE, 0, None>>,     \* fits only rotated
      <<100, 450, 1, FALSE, 0, None>>,    \* 450 wide: fits no board
      <<300, 200, 1, FALSE, 0, "N">>,     \* pinned
      <<100, 450, 1, FALSE, 0, "N">>,     \* pinned to a board it cannot fit
      <<300, 200, 1, FALSE, 0, "Z">> }    \* pinned to a name outside the mapping

NameMainItems(shapes) ==
    [i \in 1..Len(shapes) |->
        ItemSpec(Names[i], shapes[i][1], shapes[i][2], shapes[i][3], shapes[i][4],
                 shapes[i][5], 0, 0, 0, shapes[i][6])]

MainMaterials ==
    { << MaterialSpec("M", 600, 400, 100), MaterialSpec("N", 450, 300, 80) >>,
      << MaterialSpec("N", 450, 300, 80), MaterialSpec("M", 600, 400, 100) >> }

MainCalls ==
    {[fn |-> "main", items |-> NameMainItems(shapes), materials |-> ms,
      ignore_wrap_val |-> ig, kerf |-> k, cut_cost |-> 2, wrap_cost |-> 3] :
        shapes \in SeqsUpTo(MainCatalog, MaxMainItems), ms \in MainMaterials,
        ig \in BOOLEAN, k \in Kerfs}

InitMain ==
    /\ call \in MainCalls
    /\ ret = MainLocals("validate")
    /\ PackIdle

\* Lines 32-47.
MainValidate ==
    /\ call.fn = "main" /\ ret.stage = "validate"
    /\ LET outcome == validate_wrapping(call.items)
       IN  ret' = [ret EXCEPT !.stage = AfterValidation(outcome, call.ignore_wrap_val),
                              !.wrap_ok = (outcome.status = "returned"),
                              !.message = IF outcome.status = "raised" THEN outcome.msg ELSE ""]
    /\ UNCHANGED <<call, packvars>>

\* Lines 50-59: the assignment, whose ValueError ends the run, then the groups.
MainAssign ==
    /\ call.fn = "main" /\ ret.stage = "assign"
    /\ LET e == EnforceFlag(call.ignore_wrap_val)
           r == assign_any_items_to_materials(ret.items, call.materials, e)
           groups == GroupByMaterial(r.items, <<>>)
       IN  ret' = IF r.status = "raised"
                  THEN [ret EXCEPT !.stage = "crashed", !.message = r.msg,
                                   !.items = r.items, !.assign_calls = Append(@, e)]
                  ELSE [ret EXCEPT !.stage = IF groups = <<>> THEN "summary" ELSE "pack",
                                   !.items = r.items, !.assign_calls = Append(@, e),
                                   !.groups = groups, !.gi = 1]
    /\ UNCHANGED <<call, packvars>>

\* Lines 69-76: the next group; materials[mat_name] raises KeyError for a name
\* outside the mapping, else build_boards_for_material starts.
MainStartPacking ==
    /\ call.fn = "main" /\ ret.stage = "pack" /\ pc = "idle"
    /\ LET g == ret.groups[ret.gi]
           at == MaterialsNamed(call.materials, g.name)
       IN  IF at = {}
           THEN /\ ret' = [ret EXCEPT !.stage = "crashed", !.message = "KeyError"]
                /\ UNCHANGED <<call, packvars>>
           ELSE /\ material' = call.materials[CHOOSE i \in at : TRUE]
                /\ item_specs' = g.items
                /\ kerf' = call.kerf
                /\ enforce_wrap_rules' = EnforceFlag(call.ignore_wrap_val)
                /\ units' = <<>> /\ boards' = <<>> /\ cands' = <<>>
                /\ ui' = 0 /\ bi' = 0 /\ ci' = 0
                /\ pc' = "start" /\ error' = ""
                /\ UNCHANGED <<call, ret>>

\* Line 77: material_boards[mat_name] = boards, then the next group or the summary.
MainCollect ==
    /\ call.fn = "main" /\ ret.stage = "pack" /\ pc = "done"
    /\ ret' = [ret EXCEPT
                  !.material_boards = Append(@, [name |-> material.name, boards |-> boards]),
                  !.gi = @ + 1,
                  !.stage = IF ret.gi < Len(ret.groups) THEN "pack" ELSE "summary"]
    /\ pc' = "idle"
    /\ UNCHANGED <<call, material, kerf, enforce_wrap_rules, item_specs, units, boards,
                   cands, ui, bi, ci, error>>

\* The ValueError of build_boards_for_material is not caught: the run ends.
MainPackingRaised ==
    /\ call.fn = "main" /\ ret.stage = "pack" /\ pc = "failed"
    /\ ret' = [ret EXCEPT !.stage = "crashed", !.message = error]
    /\ pc' = "idle"
    /\ UNCHANGED <<call, material, kerf, enforce_wrap_rules, item_specs, units, boards,
                   cands, ui, bi, ci, error>>

\* Lines 80-86.
MainSummary ==
    /\ call.fn = "main" /\ ret.stage = "summary"
    /\ ret' = [ret EXCEPT !.stage = "pdf",
                          !.summary = compute_summary(ret.material_boards, call.materials,
                                                      call.cut_cost, call.wrap_cost)]
    /\ UNCHANGED <<call, packvars>>

\* Lines 89-99: the PDF is written; its content is not modelled.
MainPdf ==
    /\ call.fn = "main" /\ ret.stage = "pdf"
    /\ ret' = [ret EXCEPT !.stage = "finished", !.pdf = TRUE]
    /\ UNCHANGED <<call, packvars>>

NextMain ==
    \/ MainValidate \/ MainAssign \/ MainStartPacking \/ MainCollect
    \/ MainPackingRaised \/ MainSummary \/ MainPdf
    \/ Expand \/ BeginUnit \/ TryExistingRows \/ TryNewRow \/ NewBoard \/ Return

SpecMain == InitMain /\ [][NextMain]_vars

\* The items main read that carried no material key.
UnpinnedItems == {i \in 1..Len(call.items) : call.items[i].material_key = None}

\* Item i was given a material by the assignment, under the flag recorded.
AssignedByMain(i) ==
    /\ i \in UnpinnedItems
    /\ ret.assign_calls # <<>>
    /\ ret.items[i].material_key # None

\* build_boards_for_material, run for the material and under the flag of the
\* assignment, has raised for a unit of item i.
PackingRaisedFor(i) ==
    /\ pc = "failed"
    /\ material.name = ret.items[i].material_key
    /\ enforce_wrap_rules = ret.assign_calls[1]
    /\ units[ui].name = call.items[i].name
    /\ error \in {"Item '" \o call.items[i].name \o "' cannot fit even on empty board.",
                  "Item '" \o call.items[i].name \o "' has no valid orientation."}

\* C21: when assign_any_items_to_materials has assigned an unpinned item to a
\* material under an enforcement flag, build_boards_for_material for that
\* material under the same flag never raises 'cannot fit even on empty board'
\* nor 'has no valid orientation' for that item.
C21_AssignedItemPacks ==
    call.fn = "main" =>
        \A i \in 1..Len(call.items) : AssignedByMain(i) => ~PackingRaisedFor(i)

\* The packer returned boards for a material that holds, on a second board
\* and rotated, a unit of an item the assignment gave to it, in a run in
\* which the packer was given the flag of the assignment.
C21_Witness ==
    /\ call.fn = "main" /\ pc = "done"
    /\ enforce_wrap_rules = ret.assign_calls[1]
    /\ \E i \in UnpinnedItems :
          /\ ret.items[i].material_key = material.name
          /\ Len(boards) >= 2
          /\ \E p \in ItemsOf(2) : p.spec.name = call.items[i].name /\ p.rotated

\* Every item of board b ends within the left half of the board.
ItemsInLeftHalf(b) ==
    \A p \in ItemsOf(b) : 2 * (p.x_mm + p.width_mm) <= boards[b].material.width_mm

\* Every item of board b ends within the upper half of the board's length.
ItemsInFirstHalfOfLength(b) ==
    \A p \in ItemsOf(b) : 2 * (p.y_mm + p.height_mm) <= boards[b].material.length_mm

\* C22: on every board returned by build_boards_for_material that
\* classify_board_size reports as wide_half every placed item has
\* x + width <= material width / 2, and on every board it reports as
\* narrow_half every placed item has y + height <= material length / 2.
C22_HalfHoldsItems ==
    Returned_boards =>
        \A b \in BoardIds :
            /\ classify_board_size(boards[b]) = "wide_half" => ItemsInLeftHalf(b)
            /\ classify_board_size(boards[b]) = "narrow_half" => ItemsInFirstHalfOfLength(b)

\* Some item main read has no legal orientation under the wrap rules.
ValidationFails ==
    \E i \in 1..Len(call.items) : get_orientation_candidates(call.items[i], TRUE)[1] = <<>>

\* Something after the validation has happened: the assignment was called or
\* changed an item, the packer was started or built a board, the summary was
\* computed or the PDF written.
PastValidation ==
    \/ ret.assign_calls # <<>> \/ ret.items # call.items
    \/ ret.groups # <<>> \/ ret.material_boards # <<>>
    \/ pc # "idle" \/ boards # <<>>
    \/ ret.stage \in {"assign", "pack", "summary", "pdf", "finished"} \/ ret.pdf

\* C23: in main, assignment, packing, costing and PDF generation happen only
\* after the wrap validation has passed or has failed with
\* ignore-wrap-validation = true; when it fails and the flag is false the run
\* stops with no material_key modified and no board built; and the
\* enforcement flag given to the assignment and to the packer is always the
\* negation of ignore-wrap-validation.
C23_ValidationGatesPipeline ==
    call.fn = "main" =>
        /\ PastValidation =>
              /\ ret.stage # "validate"
              /\ ret.wrap_ok = ~ValidationFails
              /\ ret.wrap_ok \/ call.ignore_wrap_val
        /\ (ValidationFails /\ ~call.ignore_wrap_val) =>
              /\ ret.stage \in {"validate", "stopped"}
              /\ ~PastValidation
        /\ ret.stage = "stopped" => (ValidationFails /\ ~call.ignore_wrap_val)
        /\ \A k \in 1..Len(ret.assign_calls) : ret.assign_calls[k] = ~call.ignore_wrap_val
        /\ pc # "idle" => enforce_wrap_rules = ~call.ignore_wrap_val

\* A run that finished with its PDF although the validation failed, the flag
\* being true, and that packed the offending item without enforcement.
C23_Witness ==
    /\ call.fn = "main" /\ ret.stage = "finished" /\ ret.pdf
    /\ ValidationFails /\ call.ignore_wrap_val
    /\ ret.assign_calls = <<FALSE>> /\ ~enforce_wrap_rules
    /\ \E g \in 1..Len(ret.material_boards) :
          \E b \in 1..Len(ret.material_boards[g].boards) :
              \E k \in 1..Len(ret.material_boards[g].boards[b].placed_items) :
                  get_orientation_candidates(
                      ret.material_boards[g].boards[b].placed_items[k].spec, TRUE)[1] = <<>>

\* A run stopped by the failed validation, nothing else having happened.
C23_WitnessStopped ==
    /\ call.fn = "main" /\ ret.stage = "stopped"
    /\ ValidationFails /\ ~call.ignore_wrap_val /\ ~PastValidation

====
